---- MODULE Spec2Model ----
(***************************************************************************)
(* A model of genmc.py, an IDA Pro script/plugin that displays Hex-Rays    *)
(* microcode.  The program is modelled with Python 2 semantics (the source *)
(* uses xrange).  Every call into the host (IDA kernel, decompiler, UI,    *)
(* file system) is a point where the host's answer is chosen from a small  *)
(* set.  Python strings that the program only builds are TLA+ strings;     *)
(* version strings, which the program takes apart, are sequences of        *)
(* one-character strings.  Python None is the value None below.            *)
(***************************************************************************)
EXTENDS Integers, Sequences, FiniteSets, TLC

VARIABLES
    pc,             \* position of the running entry point
    compatible,     \* value returned by the last is_compatible()
    sel,            \* show_microcode: sel
    selection,      \* what kw.read_range_selection returned as (start, end)
    pfn,            \* show_microcode: pfn, <<>> for None, else <<start_ea, end_ea>>
    sea,            \* show_microcode: sea
    eea,            \* show_microcode: eea
    addr_fmt,       \* show_microcode: addr_fmt
    F,              \* show_microcode: F, the flags of the byte at sea
    form,           \* the MaturityForm's controls after Execute, and Execute's result
    text,           \* show_microcode: text
    mmat,           \* show_microcode: mmat
    mba_flags,      \* show_microcode: mba_flags, a bitmask as a set of flag names
    hf,             \* the hexrays_failure_t as the generator left it
    gen_calls,      \* the arguments of every hr.gen_microcode call of this run
    mba,            \* the microcode block: <<>> for None, else <<[flags]>>
    printer_mc,     \* printer_t.mc of the most recently constructed printer
    dumped,         \* the lines the block's dump passed to _print in this run
    mcv,            \* the microcode_viewer_t widget of this run
    log,            \* host output of this run: <<[chan, text]>>
    ret,            \* show_microcode's return value, <<>> until it returns
    result,         \* the entry point's return value, <<>> until it returns
    init_ret,       \* genmc.init's return value
    calls,          \* the host calls of this run, in order
    plugin,         \* is_plugin(): the script runs from a plugins directory
    fs,             \* file system: [usrdir exists, dst's content, src readable, usrdir writable]
    raised,         \* the exception that left the entry point unhandled, or None
    copies,         \* shutil.copy calls of this run
    kernel_version, \* kw.get_kernel_version() of the version check under study
    requested       \* the argument of the version check under study

vars == <<pc, compatible, sel, selection, pfn, sea, eea, addr_fmt, F, form, text,
          mmat, mba_flags, hf, gen_calls, mba, printer_mc, dumped, mcv, log, ret,
          result, init_ret, calls, plugin, fs, raised, copies, kernel_version,
          requested>>

\* ---------------------------------------------------------------- bounds
MaxComp == 10
MaxParts == 2
MaxAddr == 2
MaxLines == 2

None == "None"

\* ------------------------------------------------------- version strings
Digits == <<"0", "1", "2", "3", "4", "5", "6", "7", "8", "9">>

\* str(n) for n >= 0, as a sequence of characters (the host prints a version).
RECURSIVE DecStr(_)
DecStr(n) ==
    IF n < 10 THEN <<Digits[n + 1]>>
    ELSE DecStr(n \div 10) \o <<Digits[(n % 10) + 1]>>

RECURSIVE JoinDots(_)
JoinDots(parts) ==
    IF Len(parts) = 1 THEN DecStr(parts[1])
    ELSE DecStr(parts[1]) \o <<".">> \o JoinDots(Tail(parts))

\* The dotted numeric version strings of at most MaxParts components <= MaxComp.
VersionStrings ==
    { JoinDots(p) : p \in UNION { [1..k -> 0..MaxComp] : k \in 1..MaxParts } }

\* s.split(sep) for a one-character separator.
RECURSIVE split(_, _)
split(s, sep) ==
    IF \A i \in 1..Len(s) : s[i] # sep THEN <<s>>
    ELSE LET i == CHOOSE j \in 1..Len(s) :
                      s[j] = sep /\ \A k \in 1..(j - 1) : s[k] # sep
         IN  <<SubSeq(s, 1, i - 1)>> \o split(SubSeq(s, i + 1, Len(s)), sep)

DigitVal(c) == CHOOSE d \in 0..9 : Digits[d + 1] = c

\* int(s) for a non-empty string of decimal digits.
RECURSIVE int(_)
int(s) ==
    IF Len(s) = 1 THEN DigitVal(s[1])
    ELSE 10 * int(SubSeq(s, 1, Len(s) - 1)) + DigitVal(s[Len(s)])

min(a, b) == IF a < b THEN a ELSE b

\* is_ida_version(requested) with kw.get_kernel_version() = kernel.
is_ida_version(req, kernel) ==
    LET rv == split(req, ".")
        kv == split(kernel, ".")
        count == min(Len(rv), Len(kv))
    IN  IF count = 0 THEN FALSE
        ELSE \A i \in 1..count : ~(int(kv[i]) < int(rv[i]))

min_ida_ver == <<"7", ".", "3">>

\* is_compatible() where hexrays is what hr.init_hexrays_plugin() answers.
is_compatible(kernel, hexrays) == is_ida_version(min_ida_ver, kernel) /\ hexrays

\* ------------------------------------------------------------ host values
wanted_name == "genmc"

\* ask_desired_maturity: maturity_levels, the hr constants kept symbolic.
maturity_levels ==
    << <<"MMAT_GENERATED", "hr.MMAT_GENERATED">>,
       <<"MMAT_PREOPTIMIZED", "hr.MMAT_PREOPTIMIZED">>,
       <<"MMAT_LOCOPT", "hr.MMAT_LOCOPT">>,
       <<"MMAT_CALLS", "hr.MMAT_CALLS">>,
       <<"MMAT_GLBOPT1", "hr.MMAT_GLBOPT1">>,
       <<"MMAT_GLBOPT2", "hr.MMAT_GLBOPT2">>,
       <<"MMAT_GLBOPT3", "hr.MMAT_GLBOPT3">>,
       <<"MMAT_LVARS", "hr.MMAT_LVARS">> >>

MBA_SHORT == "hr.MBA_SHORT"
DECOMP_WARNINGS == "hr.DECOMP_WARNINGS"
PLUGIN_OK == "PLUGIN_OK"
PLUGIN_SKIP == "PLUGIN_SKIP"

Addrs == 0..MaxAddr
BADADDR == MaxAddr + 1
\* Address ranges a selection or a function can cover.
Ranges == { r \in Addrs \X Addrs : r[1] < r[2] }
\* What form.Execute() can answer: 1 is OK, anything else is not.
ExecuteResults == {-1, 0, 1}
\* Classes of byte flags ida_bytes.get_flags can answer.
FlagKinds == {"code", "data"}
is_code(flags) == flags = "code"
\* Texts the decompiler can leave in hexrays_failure_t.str.
FailureTexts == {"", "decompilation failure"}
\* Lines a block's dump can print.
LineSet == {"mov", "ret"}

\* --------------------------------------------------------------- formatting
HexDigits == <<"0", "1", "2", "3", "4", "5", "6", "7",
               "8", "9", "a", "b", "c", "d", "e", "f">>

RECURSIVE hex(_)
hex(n) ==
    IF n < 16 THEN HexDigits[n + 1]
    ELSE hex(n \div 16) \o HexDigits[(n % 16) + 1]

RECURSIVE zfill(_, _)
zfill(s, width) == IF Len(s) >= width THEN s ELSE zfill("0" \o s, width)

\* addr_fmt % n for the two formats show_microcode uses.
fmt(f, n) == zfill(hex(n), IF f = "%016x" THEN 16 ELSE 8)

\* ------------------------------------------------------------------ frames
NoForm == [ok |-> 0, mat_lvl |-> 0, flags_short |-> FALSE]
NoFailure == [errea |-> BADADDR, str |-> ""]
NoViewer == [created |-> FALSE, title |-> "", lines |-> <<>>, shown |-> FALSE]

\* The locals of an entry point before it runs.
FreshFrame ==
    /\ compatible = FALSE
    /\ sel = FALSE
    /\ selection = <<BADADDR, BADADDR>>
    /\ pfn = <<>>
    /\ sea = BADADDR
    /\ eea = BADADDR
    /\ addr_fmt = ""
    /\ F = ""
    /\ form = NoForm
    /\ text = None
    /\ mmat = None
    /\ mba_flags = {}
    /\ hf = NoFailure
    /\ gen_calls = <<>>
    /\ mba = <<>>
    /\ dumped = <<>>
    /\ mcv = NoViewer
    /\ log = <<>>
    /\ ret = <<>>
    /\ result = <<>>
    /\ init_ret = None
    /\ calls = <<>>
    /\ raised = None
    /\ copies = 0

installVars == <<plugin, fs>>
versionVars == <<kernel_version, requested>>

\* kw.msg / kw.warning
msg(t) == [chan |-> "msg", text |-> t]
warning(t) == [chan |-> "warning", text |-> t]

\* The host calls is_compatible() makes: `and` calls init_hexrays_plugin only
\* when the version check passed.
compat_calls(kernel) ==
    <<"get_kernel_version">> \o
    (IF is_ida_version(min_ida_ver, kernel) THEN <<"init_hexrays_plugin">> ELSE <<>>)

\* ------------------------------------------------------------- genmc.init
\* A swapped conditional in genmc.init.
init_result_swapped(c) == IF c THEN PLUGIN_SKIP ELSE PLUGIN_OK

init_result(c) == IF c THEN PLUGIN_OK ELSE PLUGIN_SKIP

init ==
    /\ pc = "idle"
    /\ \E kernel \in VersionStrings, hexrays \in BOOLEAN :
         /\ compatible' = is_compatible(kernel, hexrays)
         /\ calls' = compat_calls(kernel)
    /\ init_ret' = init_result(compatible')
    /\ pc' = "returned"
    /\ UNCHANGED <<sel, selection, pfn, sea, eea, addr_fmt, F, form, text, mmat,
                   mba_flags, hf, gen_calls, mba, printer_mc, dumped, mcv, log,
                   ret, result, raised, copies, installVars, versionVars>>

\* ------------------------------------------------------- create_mc_widget
\* Lines 212-214: the compatibility check that opens create_mc_widget.
create_mc_widget ==
    /\ pc = "idle"
    /\ \E kernel \in VersionStrings, hexrays \in BOOLEAN :
         /\ compatible' = is_compatible(kernel, hexrays)
         /\ calls' = compat_calls(kernel)
    /\ IF ~compatible'
       THEN /\ log' = <<msg(wanted_name \o ": Unsupported IDA / Hex-rays version\n")>>
            /\ result' = <<FALSE>>
            /\ pc' = "returned"
       ELSE /\ log' = log
            /\ result' = result
            /\ pc' = "show_microcode"
    /\ UNCHANGED <<sel, selection, pfn, sea, eea, addr_fmt, F, form, text, mmat,
                   mba_flags, hf, gen_calls, mba, printer_mc, dumped, mcv, ret,
                   init_ret, raised, copies, installVars, versionVars>>

\* ---------------------------------------------------------- show_microcode
\* `if pfn:` in place of `if not sel and pfn:`: the function overrides a selection.
range_of_function_first(s, selected, f) == IF f # <<>> THEN f ELSE selected

\* Lines 174-176: the range is the function's only when nothing is selected.
range_of(s, selected, f) == IF ~s /\ f # <<>> THEN f ELSE selected

\* Lines 169-176.
read_range ==
    /\ pc = "show_microcode"
    /\ \E s \in BOOLEAN, r \in Ranges, f \in {<<>>} \cup Ranges :
         /\ sel' = s
         /\ selection' = (IF s THEN r ELSE <<BADADDR, BADADDR>>)
         /\ pfn' = f
    /\ calls' = calls \o <<"read_range_selection", "get_screen_ea", "get_func">>
    /\ IF ~sel' /\ pfn' = <<>>
       THEN /\ sea' = selection'[1]
            /\ eea' = selection'[2]
            /\ ret' = <<FALSE, "Position cursor within a function or select range">>
            /\ pc' = "report"
       ELSE /\ sea' = range_of(sel', selection', pfn')[1]
            /\ eea' = range_of(sel', selection', pfn')[2]
            /\ ret' = ret
            /\ pc' = "get_flags"
    /\ UNCHANGED <<compatible, addr_fmt, F, form, text, mmat, mba_flags, hf,
                   gen_calls, mba, printer_mc, dumped, mcv, log, result,
                   init_ret, raised, copies, installVars, versionVars>>

\* The is_code check left out.
range_rejected_never(flags) == FALSE

\* Line 180: the range is refused unless it starts with an instruction.
range_rejected(flags) == ~is_code(flags)

\* Lines 178-181.
check_code ==
    /\ pc = "get_flags"
    /\ \E is64 \in BOOLEAN, flags \in FlagKinds :
         /\ addr_fmt' = (IF is64 THEN "%016x" ELSE "%08x")
         /\ F' = flags
    /\ calls' = calls \o <<"inf_is_64bit", "get_flags">>
    /\ IF range_rejected(F')
       THEN /\ ret' = <<FALSE, "The selected range must start with an instruction">>
            /\ pc' = "report"
       ELSE /\ ret' = ret
            /\ pc' = "ask"
    /\ UNCHANGED <<compatible, sel, selection, pfn, sea, eea, form, text, mmat,
                   mba_flags, hf, gen_calls, mba, printer_mc, dumped, mcv, log,
                   result, init_ret, raised, copies, installVars, versionVars>>

\* `if ok:` in place of `if ok == 1:`.
confirmed_nonzero(ok) == ok # 0

\* Line 158: the dialog counts as confirmed only when Execute answered 1.
confirmed(ok) == ok = 1

\* An off-by-one index into maturity_levels.
level_at_next(value) == maturity_levels[((value + 1) % Len(maturity_levels)) + 1]

\* Line 159: the row of maturity_levels the dropdown's value names (0-based).
level_at(value) == maturity_levels[value + 1]

\* Line 160: the flag bitmask of the checkbox group.
flags_of(checked) == IF checked THEN {MBA_SHORT} ELSE {}

\* ask_desired_maturity's return value, (text, mmat, flags), lines 154-162.
ask_result(ok, value, checked) ==
    IF confirmed(ok)
    THEN <<level_at(value)[1], level_at(value)[2], flags_of(checked)>>
    ELSE <<None, None, flags_of(checked)>>

\* Line 184.
cancelled(t, m) == t = None /\ m = None

\* Lines 183-185, with ask_desired_maturity (lines 123-162) inside.
ask_desired_maturity ==
    /\ pc = "ask"
    /\ \E ok \in ExecuteResults, value \in 0..(Len(maturity_levels) - 1),
          checked \in BOOLEAN :
         /\ form' = [ok |-> ok, mat_lvl |-> value, flags_short |-> checked]
         /\ text' = ask_result(ok, value, checked)[1]
         /\ mmat' = ask_result(ok, value, checked)[2]
         /\ mba_flags' = ask_result(ok, value, checked)[3]
    /\ calls' = calls \o <<"Form.Execute">>
    /\ IF cancelled(text', mmat')
       THEN /\ ret' = <<TRUE, "Cancelled">>
            /\ pc' = "report"
       ELSE /\ ret' = ret
            /\ pc' = "gen"
    /\ UNCHANGED <<compatible, sel, selection, pfn, sea, eea, addr_fmt, F, hf,
                   gen_calls, mba, printer_mc, dumped, mcv, log, result,
                   init_ret, raised, copies, installVars, versionVars>>

\* Line 191: the arguments of hr.gen_microcode(mbr, hf, ml, decomp_flags, reqmat).
gen_args(s, e, m) ==
    [mbr |-> <<<<s, e>>>>, decomp_flags |-> {DECOMP_WARNINGS}, reqmat |-> m]

\* Lines 187-193.
gen_microcode ==
    /\ pc = "gen"
    /\ gen_calls' = Append(gen_calls, gen_args(sea, eea, mmat))
    /\ calls' = calls \o <<"gen_microcode">>
    /\ \E made \in BOOLEAN, errea \in Addrs, str \in FailureTexts :
         IF made
         THEN /\ mba' = <<[flags |-> {}]>>
              /\ hf' = hf
              /\ ret' = ret
              /\ pc' = "printer"
         ELSE /\ mba' = <<>>
              /\ hf' = [errea |-> errea, str |-> str]
              /\ ret' = <<FALSE, "0x" \o fmt(addr_fmt, errea) \o ": " \o str>>
              /\ pc' = "report"
    /\ UNCHANGED <<compatible, sel, selection, pfn, sea, eea, addr_fmt, F, form,
                   text, mmat, mba_flags, printer_mc, dumped, mcv, log, result,
                   init_ret, raised, copies, installVars, versionVars>>

\* Lines 195-196: vp = printer_t() starts with the list mc0 (line 101), then
\* mba.set_mba_flags(mba_flags) ors the flags into the block.
make_printer_with(mc0) ==
    /\ pc = "printer"
    /\ printer_mc' = mc0
    /\ mba' = <<[flags |-> mba[1].flags \cup mba_flags]>>
    /\ calls' = calls \o <<"set_mba_flags">>
    /\ pc' = "dump"
    /\ UNCHANGED <<compatible, sel, selection, pfn, sea, eea, addr_fmt, F, form,
                   text, mmat, mba_flags, hf, gen_calls, dumped, mcv, log, ret,
                   result, init_ret, raised, copies, installVars, versionVars>>

\* mc as a class attribute: every printer appends to the same list.
make_printer_shared == make_printer_with(printer_mc)

make_printer == make_printer_with(<<>>)

\* printer_t._print, lines 106-108: one call of the block's dump (line 197).
printer_print ==
    /\ pc = "dump"
    /\ Len(dumped) < MaxLines
    /\ \E line \in LineSet :
         /\ printer_mc' = Append(printer_mc, line)
         /\ dumped' = Append(dumped, line)
    /\ UNCHANGED <<pc, compatible, sel, selection, pfn, sea, eea, addr_fmt, F,
                   form, text, mmat, mba_flags, hf, gen_calls, mba, mcv, log,
                   ret, result, init_ret, calls, raised, copies, installVars,
                   versionVars>>

\* for line in lines: self.AddLine(line)
RECURSIVE AddLines(_, _)
AddLines(shown, lines) ==
    IF lines = <<>> THEN shown
    ELSE AddLines(Append(shown, Head(lines)), Tail(lines))

\* microcode_viewer_t.Create, lines 113-120; host_ok is what
\* kw.simplecustviewer_t.Create answers.
Create(title, lines, host_ok) ==
    [created |-> host_ok,
     title |-> "Microcode: " \o title,
     lines |-> IF host_ok THEN AddLines(<<>>, lines) ELSE <<>>,
     shown |-> FALSE]

\* Lines 198-204, taken when the dump has returned.
show_viewer ==
    /\ pc = "dump"
    /\ \E host_ok \in BOOLEAN :
         LET title == "0x" \o fmt(addr_fmt, sea) \o "-0x" \o fmt(addr_fmt, eea)
                      \o " (" \o text \o ")"
             v == Create(title, printer_mc, host_ok)
         IN  IF ~v.created
             THEN /\ mcv' = v
                  /\ calls' = calls \o <<"Create">>
                  /\ ret' = <<FALSE, "Error creating viewer">>
             ELSE /\ mcv' = [v EXCEPT !.shown = TRUE]
                  /\ calls' = calls \o <<"Create", "Show">>
                  /\ ret' = <<TRUE, "Successfully generated microcode for 0x"
                                    \o fmt(addr_fmt, sea) \o "..0x"
                                    \o fmt(addr_fmt, eea)>>
    /\ pc' = "report"
    /\ UNCHANGED <<compatible, sel, selection, pfn, sea, eea, addr_fmt, F, form,
                   text, mmat, mba_flags, hf, gen_calls, mba, printer_mc, dumped,
                   log, result, init_ret, raised, copies, installVars,
                   versionVars>>

\* Every message sent through kw.msg, whatever the success flag.
output_msg_only(success) == "msg"

\* Line 216: the channel the message goes to.
output(success) == IF success THEN "msg" ELSE "warning"

\* Lines 215-218: create_mc_widget after show_microcode returned.
report ==
    /\ pc = "report"
    /\ log' = Append(log, [chan |-> output(ret[1]),
                           text |-> wanted_name \o ": " \o ret[2] \o "\n"])
    /\ result' = <<ret[1]>>
    /\ pc' = "returned"
    /\ UNCHANGED <<compatible, sel, selection, pfn, sea, eea, addr_fmt, F, form,
                   text, mmat, mba_flags, hf, gen_calls, mba, printer_mc, dumped,
                   mcv, ret, init_ret, calls, raised, copies, installVars,
                   versionVars>>

\* genmc.run, lines 234-235: the result is dropped and the frame is gone; the
\* host is idle until the next entry.  Objects left on the heap stay there.
host_return ==
    /\ pc = "returned"
    /\ pc' = "idle"
    /\ compatible' = FALSE
    /\ sel' = FALSE
    /\ selection' = <<BADADDR, BADADDR>>
    /\ pfn' = <<>>
    /\ sea' = BADADDR
    /\ eea' = BADADDR
    /\ addr_fmt' = ""
    /\ F' = ""
    /\ form' = NoForm
    /\ text' = None
    /\ mmat' = None
    /\ mba_flags' = {}
    /\ hf' = NoFailure
    /\ gen_calls' = <<>>
    /\ mba' = <<>>
    /\ dumped' = <<>>
    /\ mcv' = NoViewer
    /\ log' = <<>>
    /\ ret' = <<>>
    /\ result' = <<>>
    /\ init_ret' = None
    /\ calls' = <<>>
    /\ raised' = None
    /\ copies' = 0
    /\ UNCHANGED <<printer_mc, installVars, versionVars>>

Init ==
    /\ pc = "idle"
    /\ FreshFrame
    /\ printer_mc = <<>>
    /\ plugin = TRUE
    /\ fs = [usrdir |-> TRUE, dst |-> "self", src |-> TRUE, writable |-> TRUE]
    /\ kernel_version = <<>>
    /\ requested = <<>>

Next ==
    \/ init
    \/ create_mc_widget
    \/ read_range
    \/ check_code
    \/ ask_desired_maturity
    \/ gen_microcode
    \/ make_printer
    \/ printer_print
    \/ show_viewer
    \/ report
    \/ host_return

Spec == Init /\ [][Next]_vars

\* ---------------------------------------------------------- install_plugin
SELF == "genmc.py"
user_idadir == "$IDAUSR"
\* get_target_dir(), lines 31-36.
get_target_dir == user_idadir \o "/plugins/" \o wanted_name \o ".py"
\* os.path.dirname(get_target_dir()), line 57.
usrdir == user_idadir \o "/plugins"

ASKBTN_YES == "ASKBTN_YES"
Buttons == {"ASKBTN_YES", "ASKBTN_NO", "ASKBTN_CANCEL"}
\* What shutil.copy can raise.
CopyErrors == {"IOError", "OSError", "shutil.Error"}
\* What the target file can hold.
Contents == {"absent", "other", "self", "partial"}
FsStates ==
    { f \in [usrdir : BOOLEAN, dst : Contents, src : BOOLEAN, writable : BOOLEAN] :
        f.dst # "absent" => f.usrdir }

\* is_installed(), lines 39-41.
is_installed(f) == f.dst # "absent"

\* Lines 47-58.
install_plugin ==
    /\ pc = "idle"
    /\ IF plugin
       THEN /\ log' = <<msg("Command not available. Plugin already installed.\n")>>
            /\ result' = <<FALSE>>
            /\ calls' = calls
            /\ pc' = "returned"
       ELSE \E btnid \in Buttons :
              /\ calls' = (IF is_installed(fs) THEN <<"ask_yn", btnid>> ELSE <<>>)
              /\ IF is_installed(fs) /\ btnid # ASKBTN_YES
                 THEN /\ log' = log
                      /\ result' = <<FALSE>>
                      /\ pc' = "returned"
                 ELSE /\ log' = <<msg("Copying script from \"" \o SELF \o "\" to \""
                                      \o usrdir \o "\" ...")>>
                      /\ result' = result
                      /\ pc' = "mkdir"
    /\ UNCHANGED <<compatible, sel, selection, pfn, sea, eea, addr_fmt, F, form,
                   text, mmat, mba_flags, hf, gen_calls, mba, printer_mc, dumped,
                   mcv, ret, init_ret, raised, copies, installVars, versionVars>>

\* Lines 59-65.  os.path has no attribute makedirs: evaluating os.path.makedirs
\* raises AttributeError, which `except OSError` does not catch.
install_mkdir ==
    /\ pc = "mkdir"
    /\ IF ~fs.usrdir
       THEN /\ calls' = calls \o <<"os.path.makedirs">>
            /\ raised' = "AttributeError"
            /\ pc' = "returned"
       ELSE /\ calls' = calls
            /\ raised' = raised
            /\ pc' = "copy"
    /\ UNCHANGED <<compatible, sel, selection, pfn, sea, eea, addr_fmt, F, form,
                   text, mmat, mba_flags, hf, gen_calls, mba, printer_mc, dumped,
                   mcv, log, ret, result, init_ret, copies, installVars,
                   versionVars>>

\* `except OSError:` in place of the bare except: any other exception leaves
\* install_plugin unhandled.
after_copy_oserror_only(exc) ==
    IF exc = None
    THEN [msgs |-> <<msg("done!\n")>>, ret |-> <<TRUE>>, raised |-> None]
    ELSE IF exc = "OSError"
    THEN [msgs |-> <<msg("failed (copy)!\n")>>, ret |-> <<FALSE>>, raised |-> None]
    ELSE [msgs |-> <<>>, ret |-> <<>>, raised |-> exc]

\* Lines 68-72: what install_plugin does after shutil.copy raised exc (None:
\* nothing raised).  The bare except catches everything.
after_copy(exc) ==
    IF exc # None
    THEN [msgs |-> <<msg("failed (copy)!\n")>>, ret |-> <<FALSE>>, raised |-> None]
    ELSE [msgs |-> <<msg("done!\n")>>, ret |-> <<TRUE>>, raised |-> None]

\* Lines 66-72.  The copy fails when the script cannot be read or the directory
\* cannot be written, and may fail otherwise, leaving the target as it was or
\* partly written.
install_copy ==
    /\ pc = "copy"
    /\ copies' = copies + 1
    /\ \E exc \in {None} \cup CopyErrors, left \in {fs.dst, "partial"} :
         /\ (~fs.src \/ ~fs.writable) => exc = "IOError" /\ left = fs.dst
         /\ fs' = [fs EXCEPT !.dst = IF exc = None THEN "self" ELSE left]
         /\ calls' = calls \o <<"shutil.copy", exc>>
         /\ log' = log \o after_copy(exc).msgs
         /\ result' = after_copy(exc).ret
         /\ raised' = after_copy(exc).raised
    /\ pc' = "returned"
    /\ UNCHANGED <<compatible, sel, selection, pfn, sea, eea, addr_fmt, F, form,
                   text, mmat, mba_flags, hf, gen_calls, mba, printer_mc, dumped,
                   mcv, ret, init_ret, plugin, versionVars>>

InitInstall ==
    /\ pc = "idle"
    /\ FreshFrame
    /\ printer_mc = <<>>
    /\ plugin \in BOOLEAN
    /\ fs \in FsStates
    /\ kernel_version = <<>>
    /\ requested = <<>>

NextInstall ==
    \/ install_plugin
    \/ install_mkdir
    \/ install_copy
    \/ host_return

SpecInstall == InitInstall /\ [][NextInstall]_vars

\* ---------------------------------------------------------- is_ida_version
\* One call of is_ida_version(requested) on a host of version kernel_version.
version_check ==
    /\ pc = "idle"
    /\ result' = <<is_ida_version(requested, kernel_version)>>
    /\ calls' = <<"get_kernel_version">>
    /\ pc' = "returned"
    /\ UNCHANGED <<compatible, sel, selection, pfn, sea, eea, addr_fmt, F, form,
                   text, mmat, mba_flags, hf, gen_calls, mba, printer_mc, dumped,
                   mcv, log, ret, init_ret, raised, copies, installVars,
                   versionVars>>

InitVersion ==
    /\ pc = "idle"
    /\ FreshFrame
    /\ printer_mc = <<>>
    /\ plugin = TRUE
    /\ fs = [usrdir |-> TRUE, dst |-> "self", src |-> TRUE, writable |-> TRUE]
    /\ kernel_version \in VersionStrings
    /\ requested \in VersionStrings

NextVersion == version_check

SpecVersion == InitVersion /\ [][NextVersion]_vars

\* =================================================================== claims
Called(c) == \E i \in 1..Len(calls) : calls[i] = c
\* The position of the first call of c in this run, 0 when there is none.
FirstCall(c) ==
    IF Called(c) THEN CHOOSE i \in 1..Len(calls) :
                          calls[i] = c /\ \A j \in 1..(i - 1) : calls[j] # c
    ELSE 0
Logged(m) == \E i \in 1..Len(log) : log[i] = m
UnsupportedMsg == msg("genmc: Unsupported IDA / Hex-rays version\n")

\* C1: when is_compatible() is false, create_mc_widget returns False, having
\* logged only the "Unsupported" message, without reading the selection,
\* showing the maturity dialog, calling the microcode generator or creating a
\* viewer; genmc.init returns PLUGIN_OK exactly when is_compatible() is true
\* and PLUGIN_SKIP otherwise.
C1_IncompatibleShortCircuits ==
    /\ (pc # "idle" /\ init_ret = None /\ ~compatible) =>
          /\ pc = "returned"
          /\ result = <<FALSE>>
          /\ log = <<UnsupportedMsg>>
          /\ ret = <<>>
          /\ ~Called("read_range_selection")
          /\ ~Called("Form.Execute")
          /\ ~Called("gen_microcode")
          /\ ~Called("Create")
          /\ gen_calls = <<>>
          /\ mcv = NoViewer
    /\ (pc = "returned" /\ result = <<>>) =>
          /\ init_ret \in {PLUGIN_OK, PLUGIN_SKIP}
          /\ init_ret = PLUGIN_OK <=> compatible
          /\ init_ret = PLUGIN_SKIP <=> ~compatible

C1_Witness ==
    /\ pc = "returned"
    /\ ~compatible
    /\ result = <<FALSE>>
    /\ log = <<UnsupportedMsg>>
    /\ Called("init_hexrays_plugin")

\* C2: every return of show_microcode is a pair of a boolean and a non-empty
\* string; on a compatible host create_mc_widget emits exactly one message per
\* invocation, through kw.msg iff the success flag is True and through
\* kw.warning iff it is False, and returns that flag.
C2_PairSurfacedOnce ==
    /\ ret # <<>> =>
          /\ Len(ret) = 2
          /\ ret[1] \in BOOLEAN
          /\ ret[2] # ""
    /\ (pc = "returned" /\ compatible /\ init_ret = None) =>
          /\ ret # <<>>
          /\ Len(log) = 1
          /\ log[1].chan = "msg" <=> ret[1]
          /\ log[1].chan = "warning" <=> ~ret[1]
          /\ log[1].text = "genmc: " \o ret[2] \o "\n"
          /\ result = <<ret[1]>>
    /\ (pc \notin {"idle", "returned"}) => log = <<>>

C2_Witness ==
    /\ pc = "returned"
    /\ compatible
    /\ result = <<FALSE>>
    /\ Len(log) = 1
    /\ log[1].chan = "warning"

\* C6 as claimed: whenever gen_microcode is called, its maturity argument is
\* the constant paired with the dropdown entry the user picked, and the flag
\* bitmask the user chose in the dialog (MBA_SHORT if checked, else 0) is
\* among the flags passed to that call.
C6_FlagsPassedToGenerator ==
    \A i \in 1..Len(gen_calls) :
        /\ gen_calls[i].reqmat = maturity_levels[form.mat_lvl + 1][2]
        /\ (IF form.flags_short THEN {MBA_SHORT} ELSE {}) \subseteq gen_calls[i].decomp_flags

\* C6 as amended: whenever gen_microcode is called, its maturity argument is
\* the constant paired with the dropdown entry the user picked, the entry
\* whose name appears in the viewer title; the generator call's flags are
\* always DECOMP_WARNINGS alone, and the bitmask chosen in the dialog
\* (MBA_SHORT if checked, else 0) is instead set on the returned block by
\* set_mba_flags, before any line of it is dumped.
C6_MaturityPassedFlagsSetOnBlock ==
    /\ \A i \in 1..Len(gen_calls) :
          /\ form.ok = 1
          /\ gen_calls[i].reqmat = maturity_levels[form.mat_lvl + 1][2]
          /\ text = maturity_levels[form.mat_lvl + 1][1]
          /\ gen_calls[i].decomp_flags = {DECOMP_WARNINGS}
    /\ Len(gen_calls) <= 1
    /\ Called("gen_microcode") <=> gen_calls # <<>>
    /\ Called("set_mba_flags") =>
          /\ mba # <<>>
          /\ mba[1].flags = (IF form.flags_short THEN {MBA_SHORT} ELSE {})
    /\ (dumped # <<>> \/ Called("Create")) => Called("set_mba_flags")
    /\ mcv.created =>
          mcv.title = "Microcode: 0x" \o fmt(addr_fmt, sea) \o "-0x"
                      \o fmt(addr_fmt, eea) \o " ("
                      \o maturity_levels[form.mat_lvl + 1][1] \o ")"

C6_Witness ==
    /\ mcv.shown
    /\ form.flags_short
    /\ form.mat_lvl = 3
    /\ gen_calls[1].reqmat = "hr.MMAT_CALLS"
    /\ mba[1].flags = {MBA_SHORT}
    /\ dumped # <<>>

\* C7: the range given to the generator is the selection's start/end when a
\* selection exists (even when the cursor is inside a function), the current
\* function's start_ea/end_ea when there is no selection, and with neither
\* show_microcode returns (False, "Position cursor within a function or
\* select range") without showing the dialog or calling the generator.
C7_RangeFromSelectionOrFunction ==
    Called("read_range_selection") =>
        /\ sel => <<sea, eea>> = selection
        /\ (~sel /\ pfn # <<>>) => <<sea, eea>> = pfn
        /\ (~sel /\ pfn = <<>>) =>
              /\ ret = <<FALSE, "Position cursor within a function or select range">>
              /\ ~Called("Form.Execute")
              /\ ~Called("gen_microcode")
              /\ gen_calls = <<>>
        /\ \A i \in 1..Len(gen_calls) :
              gen_calls[i].mbr = << (IF sel THEN selection ELSE pfn) >>

C7_Witness ==
    /\ sel
    /\ pfn # <<>>
    /\ pfn # selection
    /\ gen_calls # <<>>
    /\ gen_calls[1].mbr = <<selection>>

\* C8: when show_microcode reaches the viewer, the lines added to the viewer
\* are exactly the lines the block's dump passed to printer_t._print in this
\* invocation: same count, same order, none dropped, duplicated or left over
\* from an earlier invocation.
C8_ViewerShowsTheDump ==
    /\ mcv.created => mcv.lines = dumped
    /\ Called("Create") => printer_mc = dumped
    /\ ~mcv.created => mcv.lines = <<>>

C8_Witness ==
    /\ mcv.shown
    /\ Len(mcv.lines) = 2
    /\ mcv.lines[1] # mcv.lines[2]
    /\ mcv.lines = dumped

\* C9: if form.Execute() does not answer 1, text and maturity are both None,
\* show_microcode returns (True, "Cancelled") without calling the generator or
\* creating or showing a viewer, and create_mc_widget reports it through
\* kw.msg, not kw.warning; if it answers 1, text and maturity are both
\* non-None and the cancel path is not taken.
C9_CancelIsSuccessfulNoOp ==
    Called("Form.Execute") =>
        /\ form.ok # 1 =>
              /\ text = None
              /\ mmat = None
              /\ ret = <<TRUE, "Cancelled">>
              /\ gen_calls = <<>>
              /\ ~Called("gen_microcode")
              /\ ~Called("Create")
              /\ ~Called("Show")
              /\ mcv = NoViewer
              /\ pc \in {"report", "returned"}
              /\ pc = "returned" =>
                    /\ log = <<msg("genmc: Cancelled\n")>>
                    /\ result = <<TRUE>>
        /\ form.ok = 1 =>
              /\ text # None
              /\ mmat # None
              /\ ret # <<TRUE, "Cancelled">>
              /\ ~Logged(msg("genmc: Cancelled\n"))

C9_Witness ==
    /\ Called("Form.Execute")
    /\ form.ok = -1
    /\ form.flags_short
    /\ pc = "returned"
    /\ log = <<msg("genmc: Cancelled\n")>>

\* C10: if the byte at the range start is not code, show_microcode returns
\* (False, "The selected range must start with an instruction") before the
\* dialog is shown and the generator is never called; if gen_microcode returns
\* no block, show_microcode returns (False, "0x<errea>: <str>") built from the
\* failure object and no viewer is created; Show() happens only after
\* gen_microcode returned a block and the viewer's Create returned true.
C10_GenerateOnlyCodeShowOnlyBlocks ==
    /\ (Called("get_flags") /\ ~is_code(F)) =>
          /\ ret = <<FALSE, "The selected range must start with an instruction">>
          /\ ~Called("Form.Execute")
          /\ ~Called("gen_microcode")
    /\ Called("gen_microcode") => (Called("get_flags") /\ is_code(F))
    /\ (Called("gen_microcode") /\ mba = <<>>) =>
          /\ ret = <<FALSE, "0x" \o fmt(addr_fmt, hf.errea) \o ": " \o hf.str>>
          /\ ~Called("Create")
          /\ ~Called("Show")
          /\ mcv = NoViewer
    /\ Called("Show") <=> mcv.shown
    /\ mcv.shown =>
          /\ mba # <<>>
          /\ mcv.created
          /\ FirstCall("gen_microcode") > 0
          /\ FirstCall("gen_microcode") < FirstCall("Create")
          /\ FirstCall("Create") < FirstCall("Show")
    /\ (Called("Create") /\ ~mcv.created) =>
          /\ ~Called("Show")
          /\ ret = <<FALSE, "Error creating viewer">>

C10_Witness ==
    /\ Called("get_flags")
    /\ ~is_code(F)
    /\ pc = "returned"
    /\ result = <<FALSE>>
    /\ log = <<warning("genmc: The selected range must start with an instruction\n")>>

\* C3: when not running as a plugin, install_plugin returns with the user
\* plugins directory in existence (created if it was absent) and with True or
\* False as its result, never with an unhandled error.
C3_InstallCreatesDirectory ==
    (pc = "returned" /\ ~plugin) =>
        /\ raised = None
        /\ fs.usrdir
        /\ result \in {<<TRUE>>, <<FALSE>>}

CopyFailed ==
    \E i \in 1..(Len(calls) - 1) : calls[i] = "shutil.copy" /\ calls[i + 1] # None

\* C4: if shutil.copy fails for any reason, nothing propagates to the caller,
\* "failed (copy)!" is the last message written, install_plugin returns False,
\* "done!" is not written, and the copy is attempted at most once per call.
C4_CopyFailureCaughtOnce ==
    /\ CopyFailed =>
          /\ pc = "returned"
          /\ raised = None
          /\ result = <<FALSE>>
          /\ log # <<>>
          /\ log[Len(log)] = msg("failed (copy)!\n")
          /\ ~Logged(msg("done!\n"))
          /\ copies = 1
    /\ copies <= 1
    /\ Logged(msg("done!\n")) => (result = <<TRUE>> /\ fs.dst = "self" /\ ~CopyFailed)

C4_Witness ==
    /\ CopyFailed
    /\ Called("shutil.Error")
    /\ fs.dst = "partial"
    /\ result = <<FALSE>>
    /\ log[Len(log)] = msg("failed (copy)!\n")

\* The numeric components of a dotted version string.
Components(v) == [i \in 1..Len(split(v, ".")) |-> int(split(v, ".")[i])]

\* Version ordering: the first differing component decides.
RECURSIVE VersionGE(_, _)
VersionGE(k, r) ==
    IF k = <<>> \/ r = <<>> THEN TRUE
    ELSE IF k[1] # r[1] THEN k[1] > r[1]
    ELSE VersionGE(Tail(k), Tail(r))

\* C5: for dotted numeric version strings with the same number of components,
\* is_ida_version(requested) is True iff the kernel version is greater than or
\* equal to the requested one, the major component compared first and the minor
\* one only when the majors are equal.
C5_MinimumVersionCheck ==
    (pc = "returned" /\ Len(Components(kernel_version)) = Len(Components(requested))) =>
        result = <<VersionGE(Components(kernel_version), Components(requested))>>

====
